---- MODULE Spec2Model ----
(***************************************************************************)
(* nscmd: a namespace-based command interpreter.                           *)
(*                                                                         *)
(* Command text (lines, tokens, namespace paths, attribute names) is a     *)
(* sequence of one-character strings, so that split, strip, join and       *)
(* prefix slicing are computed as Python computes them.  Result texts      *)
(* returned by commands are ordinary strings, concatenated with \o.        *)
(* A Python "value or None" is a sequence of length 0 (None) or 1.         *)
(***************************************************************************)
EXTENDS Naturals, Sequences, FiniteSets, TLC

VARIABLES
    NS_MAP,      \* namespace path -> handler instance (named by its class)
    NS_STATE,    \* <<namespace path, handler instance>>
    inqueue,     \* pending command lines, last element is read next
    outqueue,    \* every result ever produced, in order
    method_in,   \* input method flag
    method_out,  \* output method flags
    outstr,      \* accumulator string (None unless METHOD_STR)
    outfile,     \* path of the output file (None when not given)
    filetext,    \* contents of the output file
    stdout,      \* text written to the console stream
    pc,          \* position of run(): "read", "parse", "output", "done"
    data_in,     \* run(): the line read in this iteration
    data_out,    \* run(): the result of __cmd_parse in this iteration
    saved_ns_state,  \* __cmd_parse(): NS_STATE when the line was taken up
    entered,         \* __set_namespace(): the NS_STATE it set for the line
    remaining_parts, \* __cmd_parse(): the parts left after the namespace
    logged,      \* error records logged by default() during the last __cmd_parse
    invoked,     \* operations called by __exec during the last __cmd_parse
    cmd_in,      \* the cmd_in argument the interpreter was constructed with
    cmd_out,     \* the cmd_out argument the interpreter was constructed with
    init_log,    \* the warnings and errors __init__() logged
    cmds,        \* the caller's list given as cmd_in and how many interpreters it was
                 \* given to (example/foo.py, cmds), None when cmd_in is no list
    types,       \* the handler types declared when the interpreter was constructed
    completion,  \* the last call of the completer by readline: its arguments and
                 \* outcome, None when the line being read had none
    session,     \* how many MainInterpreter objects the process has constructed
    raised       \* the exception that left __init__() or run(), None when none did

vars == <<NS_MAP, NS_STATE, inqueue, outqueue, method_in, method_out, outstr,
          outfile, filetext, stdout, pc, data_in, data_out, saved_ns_state,
          entered, remaining_parts, logged, invoked, cmd_in, cmd_out, init_log, cmds,
          types, completion, session, raised>>

----------------------------------------------------------------------------
(* Bounds of the model *)

MaxTokens == 3      \* tokens per generated command line
MaxSpaces == 2      \* consecutive spaces in a generated command line
MaxQueue  == 2      \* lines of a generated command list
MaxOut    == 1      \* results produced by an interactive session
MaxSessions == 2    \* interpreters constructed one after the other

----------------------------------------------------------------------------
(* Python values *)

NONE == <<>>
Some(x) == <<x>>

RECURSIVE Flatten(_)
Flatten(s) == IF s = <<>> THEN "" ELSE Head(s) \o Flatten(Tail(s))

(* Delimiters *)
CMD_DELIM  == " "
LINE_DELIM == "\n"
NS_DELIM   == "."
WHITESPACE == {" ", "\t", "\n"}

(* Input/output methods *)
METHOD_STD  == 1
METHOD_FILE == 2
METHOD_STR  == 4
METHOD_LIST == 8

(* flag & method, for a single-bit flag *)
HasFlag(flag, method) == (method \div flag) % 2 = 1

----------------------------------------------------------------------------
(* str methods *)

(* sep.join(parts) *)
RECURSIVE join(_, _)
join(sep, parts) ==
    IF parts = <<>> THEN <<>>
    ELSE IF Len(parts) = 1 THEN parts[1]
    ELSE parts[1] \o sep \o join(sep, Tail(parts))

(* data.split(sep) for a one-character sep: consecutive separators give     *)
(* empty strings, and the empty string gives one empty string               *)
RECURSIVE split(_, _)
split(data, sep) ==
    IF \A i \in 1..Len(data) : data[i] # sep THEN <<data>>
    ELSE LET k == CHOOSE i \in 1..Len(data) :
                      data[i] = sep /\ \A j \in 1..(i-1) : data[j] # sep
         IN  <<SubSeq(data, 1, k-1)>> \o split(SubSeq(data, k+1, Len(data)), sep)

(* part.strip() *)
RECURSIVE lstrip(_)
lstrip(s) == IF s # <<>> /\ Head(s) \in WHITESPACE THEN lstrip(Tail(s)) ELSE s

RECURSIVE rstrip(_)
rstrip(s) ==
    IF s # <<>> /\ s[Len(s)] \in WHITESPACE THEN rstrip(SubSeq(s, 1, Len(s)-1)) ELSE s

strip(s) == rstrip(lstrip(s))

(* list.remove(x): drops the first occurrence of x *)
remove(list, x) ==
    LET k == CHOOSE i \in 1..Len(list) :
                 list[i] = x /\ \A j \in 1..(i-1) : list[j] # x
    IN  SubSeq(list, 1, k-1) \o SubSeq(list, k+1, Len(list))

Contains(list, x) == \E i \in 1..Len(list) : list[i] = x

(* s[0:n] *)
Slice0(s, n) == SubSeq(s, 1, IF n < Len(s) THEN n ELSE Len(s))

----------------------------------------------------------------------------
(* Names *)

main       == <<"m","a","i","n">>
foo        == <<"f","o","o">>
bar        == <<"b","a","r">>
helloworld == <<"h","e","l","l","o","w","o","r","l","d">>
quit       == <<"q","u","i","t">>
exit       == <<"e","x","i","t">>
help       == <<"h","e","l","p">>
clear      == <<"c","l","e","a","r">>
zzz        == <<"z","z","z">>

prefix_cmd  == <<"d","o","_">>
prefix_help == <<"h","e","l","p","_">>
global_cmds == <<quit, exit, help, clear>>

----------------------------------------------------------------------------
(* Handler types.  A method is [kind, ret, doc]: kind "user" returns ret;   *)
(* the other kinds are the built-in operations of MainInterpreter.          *)

Method(kind, ret, doc) == [kind |-> kind, ret |-> ret, doc |-> doc]

MainInterpreter ==
    [name |-> Some(main), base |-> "object",
     methods |->
        (prefix_cmd \o help)  :> Method("help",  NONE, Some("Global help command."))
     @@ (prefix_cmd \o quit)  :> Method("quit",  NONE, Some("Global command to quit program"))
     @@ (prefix_cmd \o exit)  :> Method("exit",  NONE, Some("Global command to exit program"))
     @@ (prefix_cmd \o clear) :> Method("clear", NONE, Some("Global command to clear terminal"))]

SubInterpreter ==
    [name |-> NONE, base |-> "MainInterpreter", methods |-> <<>>]

FooInterpreter ==
    [name |-> Some(foo), base |-> "SubInterpreter",
     methods |->
        (prefix_cmd \o helloworld) :>
            Method("user", Some("Hello, foo!"), Some("prints Hello, foo!"))]

(* example/bar.py: bar under foo, with no helloworld of its own *)
BarInterpreter ==
    [name |-> Some(bar), base |-> "FooInterpreter", methods |-> <<>>]

(* Further handler types a client may declare: a handler whose commands     *)
(* are named like its sub-namespace and like a global command, a handler    *)
(* that redeclares its parent's command, and a handler named like the root  *)
ShadowFoo ==
    [name |-> Some(foo), base |-> "SubInterpreter",
     methods |->
        (prefix_cmd \o helloworld) :> Method("user", Some("Hello, foo!"), NONE)
     @@ (prefix_cmd \o bar)        :> Method("user", Some("foo's bar"), NONE)
     @@ (prefix_cmd \o quit)       :> Method("user", Some("foo's quit"), NONE)]

ShadowBar ==
    [name |-> Some(bar), base |-> "ShadowFoo",
     methods |->
        (prefix_cmd \o helloworld) :> Method("user", Some("Hello, bar!"), NONE)]

MainAgain ==
    [name |-> Some(main), base |-> "SubInterpreter",
     methods |->
        (prefix_cmd \o foo) :> Method("user", Some("again's foo"), NONE)]

(* a second handler type named foo under the root, and a handler type that  *)
(* sets no name (the name attribute it inherits is SubInterpreter's None)   *)
FooTwin ==
    [name |-> Some(foo), base |-> "SubInterpreter",
     methods |->
        (prefix_cmd \o helloworld) :> Method("user", Some("Hello, twin!"), NONE)]

NoName ==
    [name |-> NONE, base |-> "SubInterpreter", methods |-> <<>>]

(* a handler type under the root whose name starts with the name of its     *)
(* sibling foo                                                              *)
FooBarInterpreter ==
    [name |-> Some(foo \o bar), base |-> "SubInterpreter", methods |-> <<>>]

Classes ==
       "MainInterpreter" :> MainInterpreter
    @@ "SubInterpreter"  :> SubInterpreter
    @@ "FooInterpreter"  :> FooInterpreter
    @@ "BarInterpreter"  :> BarInterpreter
    @@ "ShadowFoo"       :> ShadowFoo
    @@ "ShadowBar"       :> ShadowBar
    @@ "MainAgain"       :> MainAgain
    @@ "FooTwin"         :> FooTwin
    @@ "NoName"          :> NoName
    @@ "FooBarInterpreter" :> FooBarInterpreter

(* The handler types loaded when the interpreter is constructed, in the     *)
(* order of their definition                                                *)
ExampleTypes == <<"FooInterpreter", "BarInterpreter">>
ShadowTypes  == <<"ShadowFoo", "ShadowBar">>
AgainTypes   == <<"FooInterpreter", "BarInterpreter", "MainAgain">>
TwinTypes    == <<"FooInterpreter", "FooTwin">>
NoNameTypes  == <<"FooInterpreter", "NoName">>
SiblingTypes == <<"FooInterpreter", "BarInterpreter", "FooBarInterpreter">>
Configs      == {ExampleTypes, ShadowTypes, AgainTypes, TwinTypes}

(* inspect.getmro(cls) *)
RECURSIVE getmro(_)
getmro(cls) ==
    IF cls = "object" THEN <<"object">> ELSE <<cls>> \o getmro(Classes[cls].base)

reverse(s) == [i \in 1..Len(s) |-> s[Len(s) + 1 - i]]

(* lookup that searches the handler's own class only *)
lookup_own(mro, attr) ==
    IF mro = <<>> \/ Head(mro) = "object" THEN NONE
    ELSE IF attr \in DOMAIN Classes[Head(mro)].methods
         THEN Some([cls |-> Head(mro), attr |-> attr,
                    m |-> Classes[Head(mro)].methods[attr]])
         ELSE NONE

(* getattr(obj, attr): the method found along the mro, None when absent     *)
RECURSIVE lookup(_, _)
lookup(mro, attr) ==
    IF mro = <<>> \/ Head(mro) = "object" THEN NONE
    ELSE IF attr \in DOMAIN Classes[Head(mro)].methods
         THEN Some([cls |-> Head(mro), attr |-> attr,
                    m |-> Classes[Head(mro)].methods[attr]])
         ELSE lookup(Tail(mro), attr)

getattr(obj, attr) == lookup(getmro(obj), attr)

(* cls.__subclasses__() among the loaded types *)
subclasses(decl, cls) == SelectSeq(decl, LAMBDA c : Classes[c].base = cls)

(* nsclass.name: the name attribute found along the mro; a class that sets  *)
(* none inherits it, in the end the None of SubInterpreter                  *)
RECURSIVE class_name(_)
class_name(cls) ==
    IF Classes[cls].name # NONE \/ cls = "SubInterpreter" THEN Classes[cls].name
    ELSE class_name(Classes[cls].base)

(* create_namespace(obj), nslist *)
nslist(obj) ==
    LET bases == SelectSeq(reverse(getmro(obj)),
                           LAMBDA c : c # "SubInterpreter" /\ c # "object")
    IN  [i \in 1..Len(bases) |-> class_name(bases[i])]

(* create_namespace(obj): the path, or None when NS_DELIM.join(nslist)      *)
(* raises TypeError because a name is None                                  *)
create_namespace(obj) ==
    IF \E i \in 1..Len(nslist(obj)) : nslist(obj)[i] = NONE THEN NONE
    ELSE Some(join(<<NS_DELIM>>, [i \in 1..Len(nslist(obj)) |-> nslist(obj)[i][1]]))

(* create_nsmap(obj), as the list of (namespace, instance) updates it makes *)
RECURSIVE create_nsmap(_, _), create_nsmaps(_, _)
create_nsmap(decl, obj) ==
    <<<<create_namespace(obj), obj>>>> \o create_nsmaps(decl, subclasses(decl, obj))
create_nsmaps(decl, objs) ==
    IF objs = <<>> THEN <<>>
    ELSE create_nsmap(decl, Head(objs)) \o create_nsmaps(decl, Tail(objs))

(* dict built by successive updates: the last update of a key stands *)
dict(updates) ==
    [k \in {updates[i][1][1] : i \in 1..Len(updates)} |->
        LET last == CHOOSE i \in 1..Len(updates) :
                        updates[i][1][1] = k
                        /\ \A j \in (i+1)..Len(updates) : updates[j][1][1] # k
        IN  updates[last][2]]

(* __init_namespaces(): the updates of nsmap, in order *)
nsmap_updates(decl) ==
    <<<<MainInterpreter.name, "MainInterpreter">>>>
    \o create_nsmaps(decl, subclasses(decl, "SubInterpreter"))

(* __init_namespaces() raises TypeError *)
init_raises(decl) ==
    \E i \in 1..Len(nsmap_updates(decl)) : nsmap_updates(decl)[i][1] = NONE

(* __init_namespaces() *)
init_namespaces(decl) == dict(nsmap_updates(decl))

----------------------------------------------------------------------------
(* Namespace resolution *)

(* ns_search that leaves the matched part in args (parts[i:]) *)
RECURSIVE ns_search_keep(_, _, _, _, _)
ns_search_keep(prefix, parts, nsmap, i, st) ==
    IF i >= Len(parts) THEN st
    ELSE IF (prefix \o join(<<NS_DELIM>>, SubSeq(parts, 1, i + 1))) \in DOMAIN nsmap
         THEN ns_search_keep(prefix, parts, nsmap, i + 1,
                  [i |-> i,
                   last_valid |-> Some(prefix \o join(<<NS_DELIM>>, SubSeq(parts, 1, i + 1))),
                   args |-> SubSeq(parts, i + 1, Len(parts))])
         ELSE [st EXCEPT !.i = i]

(* One search loop of __check_namespace over parts[i:], from the path       *)
(* prefix (current_ns + NS_DELIM, or empty for the root search); i is the   *)
(* Python index.  st is [i, last_valid, args] as the loop leaves them.      *)
RECURSIVE ns_search(_, _, _, _, _)
ns_search(prefix, parts, nsmap, i, st) ==
    IF i >= Len(parts) THEN st
    ELSE IF (prefix \o join(<<NS_DELIM>>, SubSeq(parts, 1, i + 1))) \in DOMAIN nsmap
         THEN ns_search(prefix, parts, nsmap, i + 1,
                  [i |-> i,
                   last_valid |-> Some(prefix \o join(<<NS_DELIM>>, SubSeq(parts, 1, i + 1))),
                   args |-> SubSeq(parts, i + 2, Len(parts))])
         ELSE [st EXCEPT !.i = i]

(* __check_namespace, "check the current namespace for new ns" *)
current_search(parts, state, nsmap) ==
    ns_search(state[1] \o <<NS_DELIM>>, parts, nsmap, 0,
              [i |-> 0, last_valid |-> NONE, args |-> <<>>])

(* root_search without the test that no sub namespace was found *)
root_search_always(parts, nsmap, st) ==
    IF ns_search(<<>>, parts, nsmap, 0, st).last_valid # NONE
    THEN ns_search(<<>>, parts, nsmap, 0, st)
    ELSE st

(* __check_namespace, "if no sub ns found, check from root (main) namespace" *)
root_search(parts, nsmap, st) ==
    IF st.last_valid = NONE THEN ns_search(<<>>, parts, nsmap, 0, st) ELSE st

(* search_result that falls back to the root namespace *)
search_result_root(parts, state, nsmap, st) ==
    IF st.last_valid = NONE
    THEN <<MainInterpreter.name[1], nsmap[MainInterpreter.name[1]],
           SubSeq(parts, st.i + 1, Len(parts))>>
    ELSE <<st.last_valid[1], nsmap[st.last_valid[1]], st.args>>

(* search_result that treats the root name alone as no namespace found *)
search_result_stay(parts, state, nsmap, st) ==
    IF st.last_valid = NONE \/ st.last_valid = MainInterpreter.name
    THEN <<state[1], state[2], SubSeq(parts, st.i + 1, Len(parts))>>
    ELSE <<st.last_valid[1], nsmap[st.last_valid[1]], st.args>>

(* __check_namespace, "invalid namespace, stay in current namespace" or the *)
(* last valid namespace: <<namespace, handler, remaining parts>>            *)
search_result(parts, state, nsmap, st) ==
    IF st.last_valid = NONE
    THEN <<state[1], state[2], SubSeq(parts, st.i + 1, Len(parts))>>
    ELSE <<st.last_valid[1], nsmap[st.last_valid[1]], st.args>>

(* __check_namespace(parts) *)
check_namespace(parts, state, nsmap) ==
    search_result(parts, state, nsmap,
                  root_search(parts, nsmap, current_search(parts, state, nsmap)))

(* entered_state that pairs the namespace found with the root handler *)
entered_state_root(r) ==
    [state |-> <<r[1], "MainInterpreter">>, parts |-> r[3]]

(* __set_namespace(parts): the NS_STATE it sets and the parts it returns *)
entered_state(r) == [state |-> <<r[1], r[2]>>, parts |-> r[3]]

set_namespace(parts, state, nsmap) == entered_state(check_namespace(parts, state, nsmap))

----------------------------------------------------------------------------
(* Namespace listings used by help *)

Range(s) == {s[i] : i \in 1..Len(s)}

(* the orders in which a set may be listed *)
Orders(S) ==
    {s \in [1..Cardinality(S) -> S] : \A i, j \in 1..Cardinality(S) : s[i] = s[j] => i = j}

(* s[n:] *)
SliceFrom(s, n) == SubSeq(s, n + 1, Len(s))

(* __get_subs_of_ns(search_ns, depth): depth is None or an int *)
get_subs_of_ns(search_ns, depth, nsmap) ==
    {IF depth # NONE
     THEN join(<<NS_DELIM>>,
               Slice0(split(SliceFrom(ns, Len(search_ns) + 1), NS_DELIM), depth[1]))
     ELSE join(<<NS_DELIM>>, split(SliceFrom(ns, Len(search_ns) + 1), NS_DELIM))
     : ns \in {k \in DOMAIN nsmap : Slice0(k, Len(search_ns)) = search_ns}}

(* dir(cls): the attribute names found along the mro *)
dir(cls) == UNION {DOMAIN Classes[c].methods : c \in Range(getmro(cls)) \ {"object"}}

(* __get_cmds_of_ns(search_ns): command names without prefix_cmd *)
get_cmds_of_ns(search_ns, nsmap) ==
    {SliceFrom(func, Len(prefix_cmd)) :
        func \in {f \in dir(nsmap[search_ns]) : Slice0(f, Len(prefix_cmd)) = prefix_cmd}}

(* The order of the characters of command text *)
Alphabet ==
    <<"\t", "\n", " ", ".", "_", "a", "b", "c", "d", "e", "f", "g", "h", "i", "j", "k",
      "l", "m", "n", "o", "p", "q", "r", "s", "t", "u", "v", "w", "x", "y", "z">>

ord(c) == CHOOSE i \in 1..Len(Alphabet) : Alphabet[i] = c

RECURSIVE less(_, _)
less(a, b) ==
    IF a = <<>> THEN b # <<>>
    ELSE IF b = <<>> THEN FALSE
    ELSE IF Head(a) = Head(b) THEN less(Tail(a), Tail(b))
    ELSE ord(Head(a)) < ord(Head(b))

(* the names of S in the sorted order dir() lists them in *)
sorted(S) == CHOOSE s \in Orders(S) : \A i, j \in 1..Len(s) : i < j => less(s[i], s[j])

(* Help output *)
HELP_CMD_DELIM == "\t"
HELP_END       == "\n\n"

RECURSIVE joinstr(_, _)
joinstr(sep, names) ==
    IF names = <<>> THEN ""
    ELSE IF Len(names) = 1 THEN Flatten(names[1])
    ELSE Flatten(names[1]) \o sep \o joinstr(sep, Tail(names))

(* The text default_help() assembles: one topic per section, the names      *)
(* joined by HELP_CMD_DELIM.  The border padding and the line folding of    *)
(* textwrap.wrap are left out.                                              *)
helpstr(subs, funcs) ==
       "#### Global Commands \n" \o joinstr(HELP_CMD_DELIM, global_cmds) \o "\n"
    \o "#### Sub-namespaces \n" \o joinstr(HELP_CMD_DELIM, subs) \o "\n"
    \o "#### Current Namespace Commands \n" \o joinstr(HELP_CMD_DELIM, funcs) \o "\n"
    \o HELP_END

(* The sub-namespaces and the commands default_help() lists for namespace ns *)
help_subs(ns, nsmap)  == get_subs_of_ns(ns, Some(1), nsmap) \ {<<>>}
help_funcs(ns, nsmap) == get_cmds_of_ns(ns, nsmap) \ Range(global_cmds)

----------------------------------------------------------------------------
(* Dispatch.  An outcome is what a call did: the value it returned, whether *)
(* it raised SystemExit, the texts it passed to __cmd_output, the errors it *)
(* logged, and the operations it called.                                    *)

Outcome(result) ==
    [result |-> result, exit |-> FALSE, out |-> <<>>, logged |-> <<>>, invoked |-> <<>>]

Called(obj, f, args) == [obj |-> obj, cls |-> f.cls, attr |-> f.attr, args |-> args]

(* empty() *)
empty == Outcome(NONE)

(* default(cmd, args) *)
default(cmd, args) ==
    [Outcome(NONE) EXCEPT !.logged = <<join(<<CMD_DELIM>>, <<cmd>> \o args)>>]

(* default_help(): lists the sub-namespaces and commands of NS_STATE[0];    *)
(* subs_order is the order in which the set of sub-namespaces is iterated   *)
default_help(state, nsmap, subs_order) ==
    [Outcome(NONE) EXCEPT !.out =
        <<helpstr(SelectSeq(subs_order, LAMBDA x : x \in help_subs(state[1], nsmap)),
                  sorted(help_funcs(state[1], nsmap)))>>]

RECURSIVE exec(_, _, _, _, _, _, _)

(* do_help(args), "otherwise use docstring, print an error if bogus help    *)
(* target": e is the outcome of the help_ lookup, d the do_ attribute       *)
help_fallback(e, d, arg) ==
    [e EXCEPT !.result = NONE,
              !.out = e.out \o
                  (IF e.result # NONE THEN <<>>
                   ELSE IF d = NONE THEN <<"No help available for " \o Flatten(arg)>>
                   ELSE IF d[1].m.doc # NONE THEN <<d[1].m.doc[1]>>
                   ELSE <<>>)]

(* do_help(args) on handler obj *)
do_help(obj, args, state, nsmap, subs_order) ==
    IF args = <<>> THEN default_help(state, nsmap, subs_order)
    ELSE help_fallback(exec(obj, args[1], <<>>, Some(prefix_help), state, nsmap, subs_order),
                       getattr(obj, prefix_cmd \o args[1]), args[1])

(* do_exit(args): self.do_quit(args), with q the do_quit found on obj *)
do_exit(obj, q, args) ==
    [Outcome(NONE) EXCEPT !.exit = (q.m.kind = "quit"), !.invoked = <<Called(obj, q, args)>>]

Invoking(me, outcome) == [outcome EXCEPT !.invoked = <<me>> \o outcome.invoked]

(* func(args) for the method f found on handler obj *)
call(obj, f, args, state, nsmap, subs_order) ==
    Invoking(Called(obj, f, args),
        CASE f.m.kind = "user"  -> Outcome(f.m.ret)
          [] f.m.kind = "quit"  -> [Outcome(NONE) EXCEPT !.exit = TRUE]
          [] f.m.kind = "exit"  -> do_exit(obj, getattr(obj, prefix_cmd \o quit)[1], args)
          [] f.m.kind = "clear" -> Outcome(NONE)
          [] f.m.kind = "help"  -> do_help(obj, args, state, nsmap, subs_order))

(* exec_func that calls default() for every prefix *)
exec_func_default(obj, func, cmd, args, prefix, state, nsmap, subs_order) ==
    IF func = NONE THEN default(cmd, args)
    ELSE call(obj, func[1], args, state, nsmap, subs_order)

(* __exec, from the try on: func is the attribute found (None when getattr  *)
(* raised AttributeError), prefix the local as line 519 rebound it          *)
exec_func(obj, func, cmd, args, prefix, state, nsmap, subs_order) ==
    IF func = NONE
    THEN IF prefix = NONE THEN default(cmd, args) ELSE Outcome(NONE)
    ELSE call(obj, func[1], args, state, nsmap, subs_order)

exec_prefixed(obj, cmd, args, prefix, state, nsmap, subs_order) ==
    exec_func(obj, getattr(obj, prefix[1] \o cmd), cmd, args, prefix, state, nsmap,
              subs_order)

(* __exec(cmd, args, prefix) on handler obj *)
exec(obj, cmd, args, prefix, state, nsmap, subs_order) ==
    exec_prefixed(obj, cmd, args, IF prefix = NONE THEN Some(prefix_cmd) ELSE prefix,
                  state, nsmap, subs_order)

(* The tokens of a command line, as __cmd_parse splits it *)
stripped(pieces) == [i \in 1..Len(pieces) |-> strip(pieces[i])]

drop_empty(parts) == IF Contains(parts, <<>>) THEN remove(parts, <<>>) ELSE parts

parts_of(data) == drop_empty(stripped(split(data, CMD_DELIM)))

(* parse_done that does not restore NS_STATE *)
parse_done_keep(e, sn, saved) ==
    [outcome |-> e, state |-> sn.state,
     saved |-> Some(saved), entered |-> Some(sn.state), remaining |-> Some(sn.parts)]

(* __cmd_parse, after the command ran: restore NS_STATE and return *)
parse_done(e, sn, saved) ==
    [outcome |-> e, state |-> IF e.exit THEN sn.state ELSE saved,
     saved |-> Some(saved), entered |-> Some(sn.state), remaining |-> Some(sn.parts)]

(* __cmd_parse, after __set_namespace returned sn *)
parse_entered(sn, saved, nsmap, subs_order) ==
    IF sn.parts # <<>>
    THEN parse_done(exec(sn.state[2], sn.parts[1],
                         IF Len(sn.parts) > 1 THEN Tail(sn.parts) ELSE <<>>,
                         NONE, sn.state, nsmap, subs_order),
                    sn, saved)
    ELSE [outcome |-> Outcome(NONE), state |-> sn.state,
          saved |-> Some(saved), entered |-> Some(sn.state), remaining |-> Some(sn.parts)]

(* parse_parts that tries the first part as a command of the current        *)
(* handler before it looks for a namespace                                  *)
parse_parts_cmdfirst(parts, state, nsmap, subs_order) ==
    IF parts = <<>>
    THEN [outcome |-> empty, state |-> state,
          saved |-> NONE, entered |-> NONE, remaining |-> NONE]
    ELSE IF getattr(state[2], prefix_cmd \o parts[1]) # NONE
         THEN parse_entered([state |-> state, parts |-> parts], state, nsmap, subs_order)
         ELSE parse_entered(set_namespace(parts, state, nsmap), state, nsmap, subs_order)

(* __cmd_parse, after the split *)
parse_parts(parts, state, nsmap, subs_order) ==
    IF parts = <<>>
    THEN [outcome |-> empty, state |-> state,
          saved |-> NONE, entered |-> NONE, remaining |-> NONE]
    ELSE parse_entered(set_namespace(parts, state, nsmap), state, nsmap, subs_order)

(* __cmd_parse(data): the outcome, the NS_STATE it leaves, and its locals   *)
(* (None when the line has no parts and they are never assigned)            *)
cmd_parse(data, state, nsmap, subs_order) ==
    parse_parts(parts_of(data), state, nsmap, subs_order)

----------------------------------------------------------------------------
(* Completion *)

(* s.startswith(p), s[:len(p)] == p *)
startswith(s, p) == Slice0(s, Len(p)) = p

(* __complete_options, main *)
complete_main(text, begidx) ==
    IF begidx = 0 /\ startswith(MainInterpreter.name[1], text)
    THEN <<MainInterpreter.name[1]>> ELSE <<>>

(* __complete_options, funcs: the names __get_cmds_of_ns returns have no    *)
(* prefix_cmd, and are compared with prefix_cmd + text                      *)
complete_funcs(text, search_ns, args, nsmap) ==
    IF args # <<>>
    THEN SelectSeq(sorted(get_cmds_of_ns(search_ns, nsmap)),
                   LAMBDA func : startswith(func, prefix_cmd \o text))
    ELSE <<>>

(* __complete_options, the loop over the sub-namespaces: the first sub that *)
(* starts with text evaluates ns, a name that is not defined (NameError);   *)
(* otherwise main + subs adds a set to a list (TypeError)                   *)
complete_raises(text, search_ns, nsmap) ==
    IF \E sub \in get_subs_of_ns(search_ns, NONE, nsmap) : startswith(sub, text)
    THEN "NameError" ELSE "TypeError"

(* __complete_options after __check_namespace returned r *)
complete_found(r, text, begidx, nsmap) ==
    [main |-> complete_main(text, begidx),
     funcs |-> complete_funcs(text, r[1], r[3], nsmap),
     matches |-> NONE,
     raised |-> Some(complete_raises(text, r[1], nsmap))]

(* __complete_options that offers the root on an empty NS_MAP *)
complete_options_root(text, lb, begidx, state, nsmap) ==
    IF DOMAIN nsmap = {}
    THEN [main |-> complete_main(text, begidx), funcs |-> <<>>,
          matches |-> Some(complete_main(text, begidx)), raised |-> NONE]
    ELSE complete_found(check_namespace(split(lstrip(lb), CMD_DELIM), state, nsmap),
                        text, begidx, nsmap)

(* __complete_options(text, state) with lb the line buffer of readline *)
complete_options(text, lb, begidx, state, nsmap) ==
    IF DOMAIN nsmap = {}
    THEN [main |-> <<>>, funcs |-> <<>>, matches |-> Some(<<>>), raised |-> NONE]
    ELSE complete_found(check_namespace(split(lstrip(lb), CMD_DELIM), state, nsmap),
                        text, begidx, nsmap)

(* __complete(text, n): completion_matches[n], None past the end; an        *)
(* exception of __complete_options leaves it                                *)
complete_nth(o, n) ==
    [main |-> o.main, funcs |-> o.funcs, matches |-> o.matches, raised |-> o.raised,
     returned |-> IF o.matches # NONE /\ n < Len(o.matches[1])
                  THEN Some(o.matches[1][n + 1]) ELSE NONE]

complete(text, lb, begidx, n, state, nsmap) ==
    complete_nth(complete_options(text, lb, begidx, state, nsmap), n)

----------------------------------------------------------------------------
(* Input and output adapters *)

(* f.readlines(): the lines of a text, each with its line end *)
RECURSIVE readlines(_)
readlines(text) ==
    IF text = <<>> THEN <<>>
    ELSE IF \A i \in 1..Len(text) : text[i] # LINE_DELIM THEN <<text>>
    ELSE LET k == CHOOSE i \in 1..Len(text) :
                      text[i] = LINE_DELIM /\ \A j \in 1..(i-1) : text[j] # LINE_DELIM
         IN  <<SubSeq(text, 1, k)>> \o readlines(SubSeq(text, k+1, Len(text)))

(* choose_method_in that queues the commands as given (no reverse) *)
choose_method_in_lifo(cin) ==
    CASE cin.type = "NoneType" -> <<METHOD_STD, <<>>>>
      [] cin.type = "str"      ->
            IF cin.exists
            THEN <<METHOD_FILE, stripped(readlines(cin.text))>>
            ELSE <<METHOD_STR, stripped(split(cin.value, LINE_DELIM))>>
      [] cin.type = "list"     -> <<METHOD_LIST, cin.value>>
      [] OTHER                 -> <<METHOD_STD, <<>>>>

(* choose_method_in that takes a cmd_in of an unsupported type for an empty *)
(* command list                                                             *)
choose_method_in_queue(cin) ==
    CASE cin.type = "NoneType" -> <<METHOD_STD, <<>>>>
      [] cin.type = "str"      ->
            IF cin.exists
            THEN <<METHOD_FILE, reverse(stripped(readlines(cin.text)))>>
            ELSE <<METHOD_STR, reverse(stripped(split(cin.value, LINE_DELIM)))>>
      [] cin.type = "list"     -> <<METHOD_LIST, reverse(cin.value)>>
      [] OTHER                 -> <<METHOD_LIST, <<>>>>

(* __choose_method_in(cmd_in): <<method_in, inqueue>>.  A str cmd_in is the *)
(* path of a file with the given text when it exists, else the commands     *)
choose_method_in(cin) ==
    CASE cin.type = "NoneType" -> <<METHOD_STD, <<>>>>
      [] cin.type = "str"      ->
            IF cin.exists
            THEN <<METHOD_FILE, reverse(stripped(readlines(cin.text)))>>
            ELSE <<METHOD_STR, reverse(stripped(split(cin.value, LINE_DELIM)))>>
      [] cin.type = "list"     -> <<METHOD_LIST, reverse(cin.value)>>
      [] OTHER                 -> <<METHOD_STD, <<>>>>

(* What __choose_method_in and __choose_method_out log at warning level or  *)
(* above: a record is [level, message]                                      *)
choose_method_in_log(cin) ==
    CASE cin.type = "NoneType" -> <<>>
      [] cin.type = "str"      ->
            IF cin.exists THEN <<>>
            ELSE <<[level |-> "warning",
                    message |-> "No path found, assuming command input string"]>>
      [] cin.type = "list"     -> <<>>
      [] OTHER                 ->
            <<[level |-> "error",
               message |-> "Unsupported command input type, defaulting to METHOD_STD"]>>

choose_method_out_log(cout) ==
    CASE cout.type = "NoneType" -> <<>>
      [] cout.type = "str"      ->
            <<[level |-> "warning",
               message |-> "No path found, assuming command output string"]>>
      [] cout.type = "list"     -> <<>>
      [] OTHER                  ->
            <<[level |-> "error",
               message |-> "Unsupported command output type, defaulting to sys.stdout"]>>

(* __choose_method_out, "if outfile is not None" *)
with_outfile(method, tgt, ofile) ==
    <<IF ofile # NONE THEN method + METHOD_FILE ELSE method, tgt, ofile>>

(* __choose_method_out that starts the accumulator empty *)
choose_method_out_fresh(cout, ofile) ==
    CASE cout.type = "NoneType" -> with_outfile(METHOD_STD, NONE, ofile)
      [] cout.type = "str"      -> with_outfile(METHOD_STR, Some(""), ofile)
      [] cout.type = "list"     -> with_outfile(METHOD_LIST, NONE, ofile)
      [] OTHER                  -> with_outfile(METHOD_STD, NONE, ofile)

(* __choose_method_out(cmd_out, outfile): <<method_out, output_tgt, outfile>> *)
choose_method_out(cout, ofile) ==
    CASE cout.type = "NoneType" -> with_outfile(METHOD_STD, NONE, ofile)
      [] cout.type = "str"      -> with_outfile(METHOD_STR, Some(cout.value), ofile)
      [] cout.type = "list"     -> with_outfile(METHOD_LIST, NONE, ofile)
      [] OTHER                  -> with_outfile(METHOD_STD, NONE, ofile)

(* __cmd_output that appends to outqueue only under METHOD_LIST *)
cmd_output_nolog(io, data, mout) ==
    [stdout   |-> IF HasFlag(METHOD_STD, mout)
                  THEN io.stdout \o data \o LINE_DELIM ELSE io.stdout,
     outstr   |-> IF HasFlag(METHOD_STR, mout)
                  THEN Some(io.outstr[1] \o data \o LINE_DELIM) ELSE io.outstr,
     filetext |-> IF HasFlag(METHOD_FILE, mout)
                  THEN io.filetext \o data \o LINE_DELIM ELSE io.filetext,
     outqueue |-> IF HasFlag(METHOD_LIST, mout) THEN Append(io.outqueue, data)
                  ELSE io.outqueue]

(* __cmd_output that opens the file with "w" *)
cmd_output_truncate(io, data, mout) ==
    [stdout   |-> IF HasFlag(METHOD_STD, mout)
                  THEN io.stdout \o data \o LINE_DELIM ELSE io.stdout,
     outstr   |-> IF HasFlag(METHOD_STR, mout)
                  THEN Some(io.outstr[1] \o data \o LINE_DELIM) ELSE io.outstr,
     filetext |-> IF HasFlag(METHOD_FILE, mout)
                  THEN data \o LINE_DELIM ELSE io.filetext,
     outqueue |-> Append(io.outqueue, data)]

(* __cmd_output(data) on the sinks io = [stdout, outstr, filetext, outqueue] *)
cmd_output(io, data, mout) ==
    [stdout   |-> IF HasFlag(METHOD_STD, mout)
                  THEN io.stdout \o data \o LINE_DELIM ELSE io.stdout,
     outstr   |-> IF HasFlag(METHOD_STR, mout)
                  THEN Some(io.outstr[1] \o data \o LINE_DELIM) ELSE io.outstr,
     filetext |-> IF HasFlag(METHOD_FILE, mout)
                  THEN io.filetext \o data \o LINE_DELIM ELSE io.filetext,
     outqueue |-> Append(io.outqueue, data)]

RECURSIVE cmd_outputs(_, _, _)
cmd_outputs(io, datas, mout) ==
    IF datas = <<>> THEN io
    ELSE cmd_outputs(cmd_output(io, Head(datas), mout), Tail(datas), mout)

Sinks == [stdout |-> stdout, outstr |-> outstr, filetext |-> filetext,
          outqueue |-> outqueue]

----------------------------------------------------------------------------
(* The command lines and the construction arguments the model draws from *)

Vocabulary == {main, foo, bar, helloworld, zzz}

spaces(n) == [i \in 1..n |-> CMD_DELIM]

TokenLines ==
    {join(spaces(1), ts) : ts \in UNION {[1..k -> Vocabulary] : k \in 1..MaxTokens}}

SpacedLines ==
    {spaces(a) \o join(spaces(g), ts) \o spaces(b) :
        a \in 0..MaxSpaces, b \in 0..MaxSpaces, g \in 1..MaxSpaces,
        ts \in {<<foo>>, <<helloworld>>, <<foo, helloworld>>, <<foo, bar>>}}
    \cup {spaces(n) : n \in 0..MaxSpaces}
    \cup {foo \o <<"\t">>, foo \o <<"\t", " ">> \o helloworld}

BuiltinLines ==
    {join(spaces(1), ts) :
        ts \in {<<help>>, <<foo, help>>, <<help, helloworld>>, <<foo, help, helloworld>>,
                <<help, zzz>>, <<clear>>, <<exit>>, <<foo, exit>>,
                <<quit>>, <<foo, quit>>, <<foo, bar, quit>>, <<quit, zzz>>}}

Lines == TokenLines \cup SpacedLines \cup BuiltinLines

(* example/foo.py *)
ExampleCmds ==
    <<join(spaces(1), <<main, foo>>), helloworld,
      join(spaces(1), <<main, foo, bar, helloworld>>)>>

(* example/foo.py, cmdstr and example_cmds.txt *)
ExampleText == join(<<LINE_DELIM>>, ExampleCmds) \o <<LINE_DELIM>>

Texts ==
    {[type |-> "str", value |-> ExampleText, exists |-> FALSE],
     [type |-> "str", value |-> join(<<LINE_DELIM>>, <<spaces(1) \o foo \o spaces(1), helloworld>>),
      exists |-> FALSE],
     [type |-> "str", value |-> <<"e","x","a","m","p","l","e","_","c","m","d","s",".","t","x","t">>,
      exists |-> TRUE, text |-> ExampleText],
     [type |-> "str", value |-> <<"e","x","a","m","p","l","e","_","c","m","d","s",".","t","x","t">>,
      exists |-> TRUE, text |-> join(<<LINE_DELIM>>, <<helloworld, foo, helloworld>>)]}

ScriptLines == {foo, helloworld, zzz, quit, join(spaces(1), <<foo, bar, helloworld>>)}

Scripts == {ExampleCmds} \cup UNION {[1..k -> ScriptLines] : k \in 0..MaxQueue}

(* cmd_out, outfile and the contents of that file before the session *)
DefaultOut == <<[type |-> "NoneType"], NONE, "">>
Outs ==
    {DefaultOut,
     <<[type |-> "NoneType"], Some("example_output.txt"), "old\n">>,
     <<[type |-> "str", value |-> "out:"], Some("example_output.txt"), "">>,
     <<[type |-> "list"], NONE, "">>}

(* a cmd_out that is neither None nor a str nor a list *)
IntOut == <<[type |-> "int"], NONE, "">>

(* a string to accumulate the output in, and no output file *)
StrOut == <<[type |-> "str", value |-> "acc:"], NONE, "">>

(* The line buffers readline completes: text is the last word of the        *)
(* buffer, begidx the index where it starts                                 *)
Buffers ==
    {<<>>, <<"f">>, foo \o spaces(1) \o <<"h">>}

last_word(lb) == split(lb, CMD_DELIM)[Len(split(lb, CMD_DELIM))]

(* <<cmd_in, output>> of an interpreter constructed after the first *)
Reruns ==
    {[type |-> "list", value |-> c] : c \in {<<>>, <<join(spaces(1), <<foo, helloworld>>)>>}}
    \X Outs

(* <<handler types, cmd_in, output>>: every command list with every set of  *)
(* handler types and every output; an interactive session with every set    *)
(* of handler types, and with every output for the example's handlers       *)
Setups ==
    (Configs \X {[type |-> "list", value |-> c] : c \in Scripts} \X Outs)
    \cup (Configs \X {[type |-> "NoneType"]} \X {DefaultOut})
    \cup ({ExampleTypes} \X {[type |-> "NoneType"]} \X Outs)
    \cup ({ExampleTypes} \X Texts \X {DefaultOut})
    \cup ({NoNameTypes} \X {[type |-> "list", value |-> ExampleCmds], [type |-> "NoneType"]}
          \X {DefaultOut})
    \cup ({SiblingTypes} \X {[type |-> "NoneType"]} \X {DefaultOut})
    \cup ({ExampleTypes} \X {[type |-> "list", value |-> ExampleCmds]} \X {StrOut})
    \cup ({ExampleTypes} \X {[type |-> "int"]} \X {DefaultOut, IntOut})
    \cup ({ExampleTypes} \X {[type |-> "list", value |-> ExampleCmds]}
          \X {IntOut, <<[type |-> "int"], Some("example_output.txt"), "old\n">>})

----------------------------------------------------------------------------
(* The session *)

(* The module globals before the first interpreter is constructed, and as  *)
(* the process holds them                                                   *)
ModuleGlobals ==
    [inqueue |-> <<>>, outqueue |-> <<>>, NS_STATE |-> <<<<>>, NONE>>, NS_MAP |-> <<>>]

Globals ==
    [inqueue |-> inqueue, outqueue |-> outqueue, NS_STATE |-> NS_STATE, NS_MAP |-> NS_MAP]

(* clear_globals that leaves outqueue as it is *)
clear_globals_keep(g) ==
    [inqueue |-> <<>>, outqueue |-> g.outqueue, NS_STATE |-> <<<<>>, NONE>>, NS_MAP |-> <<>>]

(* __clear_globals() *)
clear_globals(g) ==
    [inqueue |-> <<>>, outqueue |-> <<>>, NS_STATE |-> <<<<>>, NONE>>, NS_MAP |-> <<>>]

(* __init__(cmd_in, cmd_out, outfile), with g the globals as                *)
(* __clear_globals left them and mi, mo the chosen methods: the globals and *)
(* attributes it leaves.  When __init_namespaces raises, NS_MAP stays empty *)
init(g, decl, cin, cout, mi, mo) ==
    [cmd_in |-> cin, cmd_out |-> cout, outqueue |-> g.outqueue,
     log |-> choose_method_in_log(cin) \o choose_method_out_log(cout),
     method_in |-> mi[1], inqueue |-> mi[2],
     method_out |-> mo[1], outstr |-> mo[2], outfile |-> mo[3],
     NS_STATE |-> <<MainInterpreter.name[1], "MainInterpreter">>,
     NS_MAP |-> IF init_raises(decl) THEN g.NS_MAP ELSE init_namespaces(decl),
     raised |-> IF init_raises(decl) THEN Some("TypeError") ELSE NONE]

(* __choose_method_in, cmds = cmd_in ... cmds.reverse() ... inqueue = cmds: *)
(* a cmd_in that is a list is the object the queue is bound to, n being the *)
(* number of interpreters the caller has given it to                        *)
caller_list(cin, queue, n) ==
    IF cin.type = "list" THEN Some([list |-> queue, passed |-> n]) ELSE NONE

(* the first interpreter of the process, c being what __init__ leaves *)
Constructed(c, decl, text) ==
    /\ types = decl
    /\ session = 1
    /\ cmd_in = c.cmd_in
    /\ cmd_out = c.cmd_out
    /\ init_log = c.log
    /\ outqueue = c.outqueue
    /\ method_in = c.method_in
    /\ inqueue = c.inqueue
    /\ method_out = c.method_out
    /\ outstr = c.outstr
    /\ outfile = c.outfile
    /\ filetext = text
    /\ stdout = ""
    /\ NS_STATE = c.NS_STATE
    /\ NS_MAP = c.NS_MAP
    /\ raised = c.raised
    /\ pc = IF c.raised # NONE THEN "failed" ELSE "read"
    /\ data_in = Some(<<>>)
    /\ data_out = NONE
    /\ saved_ns_state = NONE
    /\ entered = NONE
    /\ remaining_parts = NONE
    /\ logged = <<>>
    /\ invoked = <<>>
    /\ completion = NONE

Init ==
    \E setup \in Setups :
        /\ Constructed(init(clear_globals(ModuleGlobals), setup[1], setup[2], setup[3][1],
                            choose_method_in(setup[2]),
                            choose_method_out(setup[3][1], setup[3][2])),
                       setup[1], setup[3][3])
        /\ cmds = caller_list(setup[2], choose_method_in(setup[2])[2], 1)

(* a further interpreter, c being what __init__ leaves: the handler types,  *)
(* the console and the files of the process stay as they are                *)
Reconstructed(c) ==
    /\ session' = session + 1
    /\ cmd_in' = c.cmd_in
    /\ cmd_out' = c.cmd_out
    /\ init_log' = c.log
    /\ outqueue' = c.outqueue
    /\ method_in' = c.method_in
    /\ inqueue' = c.inqueue
    /\ method_out' = c.method_out
    /\ outstr' = c.outstr
    /\ outfile' = c.outfile
    /\ NS_STATE' = c.NS_STATE
    /\ NS_MAP' = c.NS_MAP
    /\ raised' = c.raised
    /\ pc' = IF c.raised # NONE THEN "failed" ELSE "read"
    /\ data_in' = Some(<<>>)
    /\ data_out' = NONE
    /\ saved_ns_state' = NONE
    /\ entered' = NONE
    /\ remaining_parts' = NONE
    /\ logged' = <<>>
    /\ invoked' = <<>>
    /\ completion' = NONE
    /\ UNCHANGED <<types, filetext, stdout>>

(* the list a further interpreter is given: the caller's list as the run   *)
(* left it                                                                  *)
SameList == [type |-> "list", value |-> cmds[1].list]

(* After run() returned, the client constructs a MainInterpreter again      *)
(* (example/foo.py does so three times), from a new list or from the list   *)
(* it gave to the interpreter before                                        *)
Construct ==
    /\ pc = "done"
    /\ session < MaxSessions
    /\ \/ \E setup \in Reruns :
              /\ Reconstructed(init(clear_globals(Globals), types, setup[1], setup[2][1],
                                    choose_method_in(setup[1]),
                                    choose_method_out(setup[2][1], setup[2][2])))
              /\ cmds' = caller_list(setup[1], choose_method_in(setup[1])[2], 1)
       \/ /\ cmds # NONE
          /\ Reconstructed(init(clear_globals(Globals), types, SameList, DefaultOut[1],
                                choose_method_in(SameList),
                                choose_method_out(DefaultOut[1], DefaultOut[2])))
          /\ cmds' = caller_list(SameList, choose_method_in(SameList)[2], cmds[1].passed + 1)

(* cmd_read that returns an empty line when the queue is empty *)
cmd_read_blank(queue) ==
    IF queue = <<>> THEN [data |-> Some(<<>>), queue |-> queue]
    ELSE [data |-> Some(queue[Len(queue)]), queue |-> SubSeq(queue, 1, Len(queue) - 1)]

(* __cmd_read() on a queue: inqueue.pop(), or None when the queue is empty *)
cmd_read(queue) ==
    IF queue = <<>> THEN [data |-> NONE, queue |-> queue]
    ELSE [data |-> Some(queue[Len(queue)]), queue |-> SubSeq(queue, 1, Len(queue) - 1)]

(* run(): data_in = __cmd_read(); None ends the loop *)
WasRead(r) ==
    /\ data_in' = r.data
    /\ inqueue' = r.queue
    /\ pc' = IF r.data = NONE THEN "done" ELSE "parse"

(* a read that rebinds inqueue to a shorter list and leaves the caller's   *)
(* list as it is                                                            *)
Read_copy ==
    /\ pc = "read"
    /\ IF HasFlag(METHOD_STD, method_in)
       THEN /\ Len(outqueue) < MaxOut
            /\ \E line \in Lines : WasRead([data |-> Some(line), queue |-> inqueue])
       ELSE WasRead(cmd_read(inqueue))
    /\ cmds' = cmds
    /\ completion' = NONE
    /\ UNCHANGED <<NS_MAP, NS_STATE, outqueue, method_in, method_out, outstr, outfile,
                   filetext, stdout, data_out, saved_ns_state, entered,
                   remaining_parts, logged, invoked, cmd_in, cmd_out, init_log, types, session, raised>>

(* run(): __cmd_read().  An interactive read returns any line; a read from  *)
(* the queue pops its last element, or returns None when it is empty; the   *)
(* queue of a list session is the caller's list.                            *)
Read ==
    /\ pc = "read"
    /\ IF HasFlag(METHOD_STD, method_in)
       THEN /\ Len(outqueue) < MaxOut
            /\ \E line \in Lines : WasRead([data |-> Some(line), queue |-> inqueue])
       ELSE WasRead(cmd_read(inqueue))
    /\ cmds' = IF cmds # NONE /\ HasFlag(METHOD_LIST, method_in)
               THEN Some([cmds[1] EXCEPT !.list = inqueue'])
               ELSE cmds
    /\ completion' = NONE
    /\ UNCHANGED <<NS_MAP, NS_STATE, outqueue, method_in, method_out, outstr, outfile,
                   filetext, stdout, data_out, saved_ns_state, entered,
                   remaining_parts, logged, invoked, cmd_in, cmd_out, init_log, types, session, raised>>

(* an interrupt handler that also returns to the root namespace *)
Interrupt_reset ==
    /\ pc = "read"
    /\ HasFlag(METHOD_STD, method_in)
    /\ data_in' = NONE
    /\ pc' = "done"
    /\ NS_STATE' = <<main, NS_MAP[main]>>
    /\ UNCHANGED <<NS_MAP, inqueue, outqueue, method_in, method_out, outstr,
                   outfile, filetext, stdout, data_out, saved_ns_state, entered,
                   remaining_parts, logged, invoked, cmd_in, cmd_out, init_log, cmds, types,
                   completion, session, raised>>

(* run(): KeyboardInterrupt while input() waits for a line *)
Interrupt ==
    /\ pc = "read"
    /\ HasFlag(METHOD_STD, method_in)
    /\ data_in' = NONE
    /\ pc' = "done"
    /\ UNCHANGED <<NS_MAP, NS_STATE, inqueue, outqueue, method_in, method_out, outstr,
                   outfile, filetext, stdout, data_out, saved_ns_state, entered,
                   remaining_parts, logged, invoked, cmd_in, cmd_out, init_log, cmds, types,
                   completion, session, raised>>

(* run(): while input() waits for a line the user presses the completion    *)
(* key and readline calls __complete(text, 0)                               *)
Completed(lb, text, o) ==
    completion' = Some([lb |-> lb, text |-> text, main |-> o.main, funcs |-> o.funcs,
                        matches |-> o.matches, raised |-> o.raised,
                        returned |-> o.returned])

(* a completer that enters the namespace the line buffer resolves to *)
Complete_enter ==
    /\ pc = "read"
    /\ HasFlag(METHOD_STD, method_in)
    /\ Len(outqueue) < MaxOut
    /\ \E lb \in Buffers :
           /\ Completed(lb, last_word(lb),
                        complete(last_word(lb), lb, Len(lb) - Len(last_word(lb)), 0,
                                 NS_STATE, NS_MAP))
           /\ NS_STATE' = set_namespace(split(lstrip(lb), CMD_DELIM), NS_STATE, NS_MAP).state
    /\ UNCHANGED <<NS_MAP, inqueue, outqueue, method_in, method_out, outstr,
                   outfile, filetext, stdout, pc, data_in, data_out, saved_ns_state,
                   entered, remaining_parts, logged, invoked, cmd_in, cmd_out, init_log,
                   cmds, types, session, raised>>

Complete ==
    /\ pc = "read"
    /\ HasFlag(METHOD_STD, method_in)
    /\ Len(outqueue) < MaxOut
    /\ \E lb \in Buffers :
           Completed(lb, last_word(lb),
                     complete(last_word(lb), lb, Len(lb) - Len(last_word(lb)), 0,
                              NS_STATE, NS_MAP))
    /\ UNCHANGED <<NS_MAP, NS_STATE, inqueue, outqueue, method_in, method_out, outstr,
                   outfile, filetext, stdout, pc, data_in, data_out, saved_ns_state,
                   entered, remaining_parts, logged, invoked, cmd_in, cmd_out, init_log,
                   cmds, types, session, raised>>

(* the sinks after a write *)
Written(io) ==
    /\ stdout' = io.stdout
    /\ outstr' = io.outstr
    /\ filetext' = io.filetext
    /\ outqueue' = io.outqueue

(* the state __cmd_parse leaves, p being what cmd_parse returns *)
Parsed(p) ==
    /\ NS_STATE' = p.state
    /\ data_out' = p.outcome.result
    /\ saved_ns_state' = p.saved
    /\ entered' = p.entered
    /\ remaining_parts' = p.remaining
    /\ logged' = p.outcome.logged
    /\ invoked' = p.outcome.invoked
    /\ Written(cmd_outputs(Sinks, p.outcome.out, method_out))
    /\ pc' = IF p.outcome.exit THEN "exited" ELSE "output"
    /\ raised' = IF p.outcome.exit THEN Some("SystemExit") ELSE NONE

(* The namespace a line with these parts resolves to: help lists its        *)
(* sub-namespaces                                                           *)
resolved_ns(parts, state, nsmap) ==
    IF parts = <<>> THEN state[1] ELSE set_namespace(parts, state, nsmap).state[1]

(* a __cmd_parse that binds the root key to the handler it ends in *)
Parse_rebind ==
    /\ pc = "parse"
    /\ \E subs_order \in
            Orders(help_subs(resolved_ns(parts_of(data_in[1]), NS_STATE, NS_MAP), NS_MAP)) :
        \E p \in {cmd_parse(data_in[1], NS_STATE, NS_MAP, subs_order)} :
            /\ Parsed(p)
            /\ NS_MAP' = (main :> p.state[2]) @@ NS_MAP
    /\ UNCHANGED <<inqueue, method_in, method_out, outfile, data_in, cmd_in, cmd_out,
                   init_log, cmds, types, completion, session>>

(* run(): data_out = __cmd_parse(data_in).  SystemExit leaves run(). *)
Parse ==
    /\ pc = "parse"
    /\ \E subs_order \in
            Orders(help_subs(resolved_ns(parts_of(data_in[1]), NS_STATE, NS_MAP), NS_MAP)) :
        \E p \in {cmd_parse(data_in[1], NS_STATE, NS_MAP, subs_order)} : Parsed(p)
    /\ UNCHANGED <<NS_MAP, inqueue, method_in, method_out, outfile, data_in, cmd_in, cmd_out,
                   init_log, cmds, types, completion, session>>

(* run(): if data_out is not None: __cmd_output(data_out); the iteration    *)
(* ends.  Its locals are dead from here on (the next read overwrites them): *)
(* they go back to their values of before the loop.                         *)
Output ==
    /\ pc = "output"
    /\ Written(IF data_out # NONE THEN cmd_output(Sinks, data_out[1], method_out)
               ELSE Sinks)
    /\ pc' = "read"
    /\ data_in' = Some(<<>>)
    /\ data_out' = NONE
    /\ saved_ns_state' = NONE
    /\ entered' = NONE
    /\ remaining_parts' = NONE
    /\ logged' = <<>>
    /\ invoked' = <<>>
    /\ UNCHANGED <<NS_MAP, NS_STATE, inqueue, method_in, method_out, outfile, cmd_in,
                   cmd_out, init_log, cmds, types, completion, session, raised>>

Next == Read \/ Complete \/ Interrupt \/ Parse \/ Output \/ Construct

Spec == Init /\ [][Next]_vars

(* The completer called while NS_MAP is empty, as an __init__ that raised   *)
(* in __init_namespaces leaves it: __complete(text, n) for line buffer lb    *)
EmptyMapInit == Init /\ DOMAIN NS_MAP = {}

Query ==
    /\ DOMAIN NS_MAP = {}
    /\ \E lb \in Lines, n \in 0..1 :
           Completed(lb, last_word(lb),
                     complete(last_word(lb), lb, Len(lb) - Len(last_word(lb)), n,
                              NS_STATE, NS_MAP))
    /\ UNCHANGED <<NS_MAP, NS_STATE, inqueue, outqueue, method_in, method_out, outstr,
                   outfile, filetext, stdout, pc, data_in, data_out, saved_ns_state,
                   entered, remaining_parts, logged, invoked, cmd_in, cmd_out, init_log,
                   cmds, types, session, raised>>

QuerySpec == EmptyMapInit /\ [][Query]_vars

(* run() is a loop of a single thread that is never suspended but in        *)
(* input(): a read from the queue, the parse and the output each happen.    *)
QueueRead == ~HasFlag(METHOD_STD, method_in) /\ Read

(* Weak fairness of Parse.  Parse is enabled exactly when pc = "parse" and  *)
(* every Parse step leaves pc = "parse", so WF_vars(Parse) says that the    *)
(* run is not in __cmd_parse forever.                                       *)
ParseReturns == []<>(pc # "parse")

LiveSpec == Spec /\ WF_vars(QueueRead) /\ ParseReturns /\ WF_vars(Output)

----------------------------------------------------------------------------
(* Properties *)

Line(ts) == join(spaces(1), ts)

(* run() has called __cmd_parse on data_in and has not yet ended the iteration *)
AfterParse == pc \in {"output", "exited"}

(* __cmd_parse went past the split: the line had parts *)
Resolved == AfterParse /\ remaining_parts # NONE

(* the largest k such that prefix joined with parts 1..j is a namespace for *)
(* every j in 1..k                                                          *)
Consumed(prefix, parts, nsmap) ==
    LET Ks == {k \in 0..Len(parts) :
                  \A j \in 1..k :
                      (prefix \o join(<<NS_DELIM>>, SubSeq(parts, 1, j))) \in DOMAIN nsmap}
    IN  CHOOSE k \in Ks : \A m \in Ks : m <= k

RelPrefix == saved_ns_state[1][1] \o <<NS_DELIM>>
Parts     == parts_of(data_in[1])
NoSearch  == [i |-> 0, last_valid |-> NONE, args |-> <<>>]

(* C1: a line that resolves to namespace N with no part left leaves         *)
(* NS_STATE at N with N's handler; a line with parts left leaves NS_STATE   *)
(* as it was before the line, whatever the command did.                     *)
C1_StateAfterLine ==
    Resolved =>
        /\ remaining_parts[1] = <<>> =>
              NS_STATE = entered[1] /\ NS_STATE[2] = NS_MAP[NS_STATE[1]]
        /\ remaining_parts[1] # <<>> => NS_STATE = saved_ns_state[1]

(* C2: with the example's handlers, the example's command list ends with    *)
(* outqueue = ["Hello, foo!", "Hello, foo!"]; and whenever a command runs   *)
(* on a handler whose class does not declare it, the result is the one of   *)
(* the ancestor that declares it.                                           *)
C2_InheritedCommand ==
    /\ (/\ pc = "done"
        /\ cmd_in = [type |-> "list", value |-> ExampleCmds]
        /\ NS_MAP = init_namespaces(ExampleTypes))
       => outqueue = <<"Hello, foo!", "Hello, foo!">>
    /\ (/\ Resolved
        /\ remaining_parts[1] # <<>>
        /\ (prefix_cmd \o remaining_parts[1][1])
              \notin DOMAIN Classes[entered[1][2]].methods
        /\ \E c \in Range(getmro(entered[1][2])) \ {"object"} :
              /\ (prefix_cmd \o remaining_parts[1][1]) \in DOMAIN Classes[c].methods
              /\ Classes[c].methods[prefix_cmd \o remaining_parts[1][1]].kind = "user")
       => \E c \in Range(getmro(entered[1][2])) \ {"object"} :
              /\ (prefix_cmd \o remaining_parts[1][1]) \in DOMAIN Classes[c].methods
              /\ data_out = Classes[c].methods[prefix_cmd \o remaining_parts[1][1]].ret
              /\ invoked = <<[obj |-> entered[1][2], cls |-> c,
                              attr |-> prefix_cmd \o remaining_parts[1][1],
                              args |-> Tail(remaining_parts[1])]>>

C2_Witness ==
    /\ pc = "done"
    /\ cmd_in = [type |-> "list", value |-> ExampleCmds]
    /\ NS_MAP = init_namespaces(ExampleTypes)
    /\ outqueue = <<"Hello, foo!", "Hello, foo!">>

(* C3: a search pass from prefix P consumes the largest k such that P       *)
(* joined with parts 1..j is a namespace for every j in 1..k; it yields     *)
(* that path and parts k+1..n, and the handler returned with the path is    *)
(* the one NS_MAP holds for it.                                             *)
PassConsumes(prefix) ==
    LET k  == Consumed(prefix, Parts, NS_MAP)
        st == ns_search(prefix, Parts, NS_MAP, 0, NoSearch)
    IN  /\ k = 0 => st.last_valid = NONE
        /\ k > 0 =>
              /\ st.last_valid = Some(prefix \o join(<<NS_DELIM>>, SubSeq(Parts, 1, k)))
              /\ st.args = SubSeq(Parts, k + 1, Len(Parts))

(* the line resolved to what the pass from prefix found *)
ReturnsPass(prefix) ==
    /\ entered[1][1] =
          prefix \o join(<<NS_DELIM>>, SubSeq(Parts, 1, Consumed(prefix, Parts, NS_MAP)))
    /\ entered[1][2] = NS_MAP[entered[1][1]]
    /\ remaining_parts[1] = SubSeq(Parts, Consumed(prefix, Parts, NS_MAP) + 1, Len(Parts))

C3_GreedyPass ==
    Resolved =>
        /\ PassConsumes(RelPrefix)
        /\ PassConsumes(<<>>)
        /\ Consumed(RelPrefix, Parts, NS_MAP) > 0 => ReturnsPass(RelPrefix)
        /\ (Consumed(RelPrefix, Parts, NS_MAP) = 0 /\ Consumed(<<>>, Parts, NS_MAP) > 0)
              => ReturnsPass(<<>>)

C3_Witness ==
    /\ Resolved
    /\ data_in = Some(Line(<<foo, bar, helloworld>>))
    /\ saved_ns_state = Some(<<main, "MainInterpreter">>)
    /\ entered = Some(<<main \o <<".">> \o foo \o <<".">> \o bar, "BarInterpreter">>)
    /\ remaining_parts = Some(<<helloworld>>)

(* C4: when the first part names a child of the current namespace the line  *)
(* resolves below the current namespace, also when the parts spell a        *)
(* namespace from the root.                                                 *)
C4_RelativeFirst ==
    (Resolved /\ (RelPrefix \o Parts[1]) \in DOMAIN NS_MAP) =>
        LET k == Consumed(RelPrefix, Parts, NS_MAP)
        IN  /\ k >= 1
            /\ entered[1][1] = RelPrefix \o join(<<NS_DELIM>>, SubSeq(Parts, 1, k))
            /\ remaining_parts[1] = SubSeq(Parts, k + 1, Len(Parts))

C4_Witness ==
    /\ Resolved
    /\ data_in = Some(Line(<<main, foo>>))
    /\ saved_ns_state = Some(<<main, "MainInterpreter">>)
    /\ (main \o <<".">> \o foo) \in DOMAIN NS_MAP
    /\ entered = Some(<<main \o <<".">> \o main, "MainAgain">>)
    /\ remaining_parts = Some(<<foo>>)

(* C5: when neither pass matches a part, the resolution is the current      *)
(* namespace and handler with every part remaining, in order.               *)
C5_NoMatchStays ==
    (/\ Resolved
     /\ Consumed(RelPrefix, Parts, NS_MAP) = 0
     /\ Consumed(<<>>, Parts, NS_MAP) = 0)
    => /\ entered = saved_ns_state
       /\ remaining_parts = Some(Parts)

C5_Witness ==
    /\ Resolved
    /\ data_in = Some(Line(<<zzz, foo>>))
    /\ saved_ns_state = Some(<<main \o <<".">> \o foo, "FooInterpreter">>)
    /\ entered = saved_ns_state
    /\ remaining_parts = Some(<<zzz, foo>>)

(* the command of the line is no operation of the handler it resolved to *)
UnknownCommand ==
    /\ Resolved
    /\ remaining_parts[1] # <<>>
    /\ getattr(entered[1][2], prefix_cmd \o remaining_parts[1][1]) = NONE

(* C6: dispatching a command the resolved handler does not have calls       *)
(* default() once with the command and its arguments, which logs the line,  *)
(* and returns None without raising.                                        *)
C6_UnknownCallsDefault ==
    UnknownCommand =>
        /\ logged = <<join(<<CMD_DELIM>>, remaining_parts[1])>>
        /\ data_out = NONE
        /\ pc = "output"

(* C7: a line whose command is unknown in the namespace it resolves to      *)
(* writes nothing to outqueue or to a sink, leaves NS_STATE as it was, and  *)
(* the loop goes on to the next read with the queue untouched.              *)
SinksUnchanged ==
    /\ outqueue' = outqueue
    /\ stdout' = stdout
    /\ outstr' = outstr
    /\ filetext' = filetext

UnknownLine(data, state) ==
    LET parts == parts_of(data)
        r     == check_namespace(parts, state, NS_MAP)
    IN  /\ parts # <<>>
        /\ r[3] # <<>>
        /\ getattr(r[2], prefix_cmd \o r[3][1]) = NONE

C7_UnknownCommandLine ==
    [][/\ (pc = "parse" /\ UnknownLine(data_in[1], NS_STATE))
          => /\ SinksUnchanged
             /\ NS_STATE' = NS_STATE
             /\ data_out' = NONE
             /\ inqueue' = inqueue
             /\ pc' = "output"
       /\ (pc = "output" /\ UnknownCommand)
          => /\ SinksUnchanged
             /\ NS_STATE' = NS_STATE
             /\ inqueue' = inqueue
             /\ pc' = "read"]_vars

C7_Witness ==
    /\ pc = "done"
    /\ cmd_in = [type |-> "list", value |-> <<zzz, foo>>]
    /\ NS_STATE[1] = main \o <<".">> \o foo
    /\ outqueue = <<>>

(* C8: dispatching quit, exit, help or clear calls the operation of         *)
(* MainInterpreter, whatever the handler declares.                          *)
C8_ReservedNotShadowed ==
    (/\ Resolved
     /\ remaining_parts[1] # <<>>
     /\ remaining_parts[1][1] \in Range(global_cmds))
    => /\ invoked # <<>>
       /\ invoked[1].cls = "MainInterpreter"
       /\ invoked[1].attr = prefix_cmd \o remaining_parts[1][1]

(* C9: when the first part names a child namespace of the current           *)
(* namespace and a command of the current handler, the line enters the      *)
(* child namespace and the command of the current handler is not called.    *)
C9_NamespaceBeforeCommand ==
    (/\ Resolved
     /\ (RelPrefix \o Parts[1]) \in DOMAIN NS_MAP
     /\ getattr(saved_ns_state[1][2], prefix_cmd \o Parts[1]) # NONE)
    => /\ Len(remaining_parts[1]) < Len(Parts)
       /\ Slice0(entered[1][1], Len(RelPrefix \o Parts[1])) = RelPrefix \o Parts[1]
       /\ \A i \in 1..Len(invoked) :
              ~(/\ invoked[i].obj = saved_ns_state[1][2]
                /\ invoked[i].attr = prefix_cmd \o Parts[1]
                /\ invoked[i].args = Tail(Parts))
       /\ Len(Parts) = 1 =>
              /\ NS_STATE = <<RelPrefix \o Parts[1], NS_MAP[RelPrefix \o Parts[1]]>>
              /\ invoked = <<>>
              /\ data_out = NONE

C9_Witness ==
    /\ Resolved
    /\ data_in = Some(bar)
    /\ saved_ns_state = Some(<<main \o <<".">> \o foo, "ShadowFoo">>)
    /\ getattr("ShadowFoo", prefix_cmd \o bar) # NONE
    /\ NS_STATE = <<main \o <<".">> \o foo \o <<".">> \o bar, "ShadowBar">>
    /\ invoked = <<>>

(* C10: a line is processed as the line of its non-empty space-separated    *)
(* tokens joined by single spaces is; a line without such a token goes to   *)
(* empty() with no resolution and no dispatch.                              *)
Tokens(data) == SelectSeq(split(data, CMD_DELIM), LAMBDA t : t # <<>>)

SameAsLine(line, state) ==
    LET p == cmd_parse(line, state, NS_MAP, <<>>)
    IN  /\ NS_STATE = p.state
        /\ data_out = p.outcome.result
        /\ (pc = "exited") = p.outcome.exit

C10_SpacesIrrelevant ==
    AfterParse =>
        IF Tokens(data_in[1]) = <<>>
        THEN remaining_parts = NONE /\ invoked = <<>> /\ logged = <<>>
        ELSE /\ remaining_parts # NONE
             /\ SameAsLine(Line(Tokens(data_in[1])), saved_ns_state[1])

(* the path of a handler type as its declaration gives it: the names of its *)
(* ancestors from the root down, the template left out, joined by '.'       *)
RECURSIVE AncestryPath(_)
AncestryPath(cls) ==
    IF cls = "MainInterpreter" THEN main
    ELSE IF cls = "SubInterpreter" THEN AncestryPath(Classes[cls].base)
    ELSE AncestryPath(Classes[cls].base) \o <<NS_DELIM>> \o Classes[cls].name[1]

Unnamed(decl)   == {c \in Range(decl) : Classes[c].name = NONE}
Colliding(decl) ==
    {c \in Range(decl) \ Unnamed(decl) :
        \E d \in Range(decl) \ Unnamed(decl) :
            d # c /\ AncestryPath(d) = AncestryPath(c)}

(* C11: when two declared handler types have the same path, or a declared   *)
(* handler type has no name, construction raises ConfigurationError and no  *)
(* session starts; no handler is dropped silently.                          *)
C11_ConstructionRejects ==
    (Colliding(types) # {} \/ Unnamed(types) # {})
    => /\ raised = Some("ConfigurationError")
       /\ pc = "failed"

ParentPath(path) ==
    LET segs == split(path, NS_DELIM)
    IN  join(<<NS_DELIM>>, SubSeq(segs, 1, Len(segs) - 1))

(* C12: after construction NS_MAP has one key for each declared handler     *)
(* type and one for the root: "main" maps to the MainInterpreter, the key   *)
(* of a type is the names of its ancestry from the root joined by '.', the  *)
(* template gives no key and no segment, and the parent path of every key   *)
(* but the root is a key.                                                   *)
C12_MapKeys ==
    pc # "failed" =>
        /\ NS_MAP[main] = "MainInterpreter"
        /\ DOMAIN NS_MAP = {main} \cup {AncestryPath(c) : c \in Range(types)}
        /\ Cardinality(DOMAIN NS_MAP) = Len(types) + 1
        /\ \A c \in Range(types) : NS_MAP[AncestryPath(c)] = c
        /\ \A k \in DOMAIN NS_MAP \ {main} : ParentPath(k) \in DOMAIN NS_MAP

(* the lines a non-interactive cmd_in supplies, in its order, as read *)
Supplied ==
    CASE cmd_in.type = "list" -> cmd_in.value
      [] cmd_in.type = "str"  ->
            IF cmd_in.exists
            THEN [i \in 1..Len(readlines(cmd_in.text)) |-> strip(readlines(cmd_in.text)[i])]
            ELSE [i \in 1..Len(split(cmd_in.value, LINE_DELIM)) |->
                      strip(split(cmd_in.value, LINE_DELIM)[i])]
      [] OTHER -> <<>>

NonInteractive == cmd_in.type \in {"list", "str"} /\ pc # "failed"

(* how many of the supplied lines have been taken from the queue *)
Taken == Len(Supplied) - Len(inqueue)

(* What processing lines one after the other from namespace state gives:    *)
(* the texts written, the state left, whether a line left by SystemExit.    *)
(* (The lines of the model's command lists ask for no help listing, so the  *)
(* order of a listing plays no part.)                                       *)
RECURSIVE Replay(_, _, _)
Replay(lines, nsmap, acc) ==
    IF lines = <<>> \/ acc.exit THEN acc
    ELSE LET p == cmd_parse(Head(lines), acc.state, nsmap, <<>>)
         IN  Replay(Tail(lines), nsmap,
                    [out   |-> acc.out \o p.outcome.out \o p.outcome.result,
                     state |-> p.state,
                     exit  |-> p.outcome.exit])

Replayed(lines) ==
    Replay(lines, NS_MAP,
           [out |-> <<>>, state |-> <<main, "MainInterpreter">>, exit |-> FALSE])

(* C13: with a command list, string or file the lines are taken one at a    *)
(* time in the order supplied, and when a line is taken every result of the *)
(* lines before it has been written.                                        *)
C13_QueueState ==
    NonInteractive =>
        /\ inqueue = reverse(SubSeq(Supplied, Taken + 1, Len(Supplied)))
        /\ pc \in {"parse", "output", "exited"} =>
              Taken >= 1 /\ data_in = Some(Supplied[Taken])
        /\ pc \in {"read", "done"} => outqueue = Replayed(SubSeq(Supplied, 1, Taken)).out
        /\ pc = "parse" => outqueue = Replayed(SubSeq(Supplied, 1, Taken - 1)).out

C13_TakeStep ==
    (NonInteractive /\ session' = session /\ inqueue' # inqueue)
    => /\ pc = "read" /\ pc' = "parse"
       /\ data_in' = Some(Supplied[Taken + 1])
       /\ inqueue' = SubSeq(inqueue, 1, Len(inqueue) - 1)
       /\ outqueue' = outqueue /\ stdout' = stdout /\ filetext' = filetext
       /\ outstr' = outstr

C13_InOrder == [](C13_QueueState) /\ [][C13_TakeStep]_vars

C13_Witness ==
    /\ pc = "done"
    /\ cmd_in.type = "str"
    /\ cmd_in.exists
    /\ cmd_in.text = join(<<LINE_DELIM>>, <<helloworld, foo, helloworld>>)
    /\ inqueue = <<>>
    /\ outqueue = <<"Hello, foo!">>
    /\ NS_STATE[1] = main \o <<".">> \o foo

(* C14: a run over a queue of n lines none of which quits takes each line   *)
(* once and ends: the read after the last line returns None, run() returns  *)
(* with the queue empty.                                                    *)
C14_QueueRunEnds ==
    (NonInteractive /\ pc = "read" /\ ~Replayed(Supplied).exit)
    ~> (/\ pc = "done"
        /\ data_in = NONE
        /\ inqueue = <<>>
        /\ Taken = Len(Supplied)
        /\ outqueue = Replayed(Supplied).out
        /\ NS_STATE = Replayed(Supplied).state)

C14_Witness ==
    /\ pc = "done"
    /\ session = 1
    /\ cmd_in = [type |-> "list", value |-> <<foo, helloworld>>]
    /\ data_in = NONE
    /\ inqueue = <<>>
    /\ outqueue = <<"Hello, foo!">>

(* the value returned by the operation the line dispatched, None when it   *)
(* dispatched none                                                          *)
Returned ==
    IF invoked = <<>> THEN NONE
    ELSE Classes[invoked[1].cls].methods[invoked[1].attr].ret

(* the line dispatched the built-in help *)
HelpDispatched ==
    /\ invoked # <<>>
    /\ invoked[1].cls = "MainInterpreter"
    /\ invoked[1].attr = prefix_cmd \o help

(* C15 as stated: whatever the output flags, the OutputLog grows by the     *)
(* result an operation returned when that result is not None, once, and by  *)
(* nothing else: a line whose operation returns None appends nothing.       *)
C15_LogStep ==
    session' = session =>
        /\ pc = "parse" => data_out' = Returned' /\ outqueue' = outqueue
        /\ pc = "output" => outqueue' = outqueue \o data_out
        /\ pc \notin {"parse", "output"} => outqueue' = outqueue

C15_HelpStep ==
    IF HelpDispatched'
    THEN /\ Len(outqueue') <= Len(outqueue) + 1
         /\ SubSeq(outqueue', 1, Len(outqueue)) = outqueue
         /\ invoked'[1].args = <<>> => Len(outqueue') = Len(outqueue) + 1
         /\ (/\ invoked'[1].args # <<>>
             /\ getattr(invoked'[1].obj, prefix_cmd \o invoked'[1].args[1]) = NONE)
            => outqueue' = Append(outqueue,
                                  "No help available for " \o Flatten(invoked'[1].args[1]))
    ELSE outqueue' = outqueue

C15_AmendedStep ==
    session' = session =>
        /\ pc = "parse" => data_out' = Returned' /\ C15_HelpStep
        /\ pc = "output" => outqueue' = outqueue \o data_out
        /\ pc \notin {"parse", "output"} => outqueue' = outqueue

C16_LogStep ==
    /\ session' = session =>
           /\ Len(outqueue') >= Len(outqueue)
           /\ SubSeq(outqueue', 1, Len(outqueue)) = outqueue
    /\ session' # session => outqueue' = <<>>

C16_AppendOnly == [][C16_LogStep]_vars

C16_Witness ==
    /\ session = 2
    /\ pc = "read"
    /\ outqueue = <<>>
    /\ inqueue # <<>>
    /\ stdout = "Hello, foo!\n"

(* the texts as lines of a file *)
RECURSIVE AsLines(_)
AsLines(texts) ==
    IF texts = <<>> THEN "" ELSE Head(texts) \o LINE_DELIM \o AsLines(Tail(texts))

(* what a step of a session appended to the OutputLog *)
Appended == SubSeq(outqueue', Len(outqueue) + 1, Len(outqueue'))

(* C17: with an output file every result is appended to the file's          *)
(* contents as one line ending in a newline, what the file held stays in    *)
(* front of it, and constructing a new interpreter on the same file leaves  *)
(* the file as it is.  Without an output file the file is never written.    *)
C17_FileStep ==
    /\ session' # session => filetext' = filetext
    /\ session' = session =>
           /\ (pc = "output" /\ data_out # NONE) => Appended = data_out
           /\ filetext' = IF HasFlag(METHOD_FILE, method_out)
                          THEN filetext \o AsLines(Appended)
                          ELSE filetext

C17_FileAppends == [][C17_FileStep]_vars

C17_Witness ==
    /\ session = 2
    /\ pc = "done"
    /\ HasFlag(METHOD_FILE, method_out)
    /\ outqueue = <<"Hello, foo!">>
    /\ filetext = "old\nHello, foo!\nHello, foo!\n"

(* the command the last parsed line dispatched, None when it only          *)
(* navigated                                                                *)
Dispatched ==
    IF remaining_parts = NONE \/ remaining_parts[1] = <<>> THEN NONE
    ELSE Some(remaining_parts[1][1])

(* C18: a line that dispatches quit or exit, from whatever namespace, ends  *)
(* the processing at once, no other line does, and after it no line is      *)
(* read or dispatched and nothing is written.                               *)
C18_QuitState ==
    /\ (pc = "output" /\ Dispatched # NONE) => Dispatched[1] \notin {quit, exit}
    /\ pc = "exited" => (Dispatched # NONE /\ Dispatched[1] \in {quit, exit})

C18_QuitEnds == [](C18_QuitState) /\ [][pc # "exited"]_vars

(* what the line buffer of the last completion query resolves to:          *)
(* <<namespace, handler, remaining tokens>>                                 *)
QueryResolves ==
    check_namespace(split(lstrip(completion[1].lb), CMD_DELIM), NS_STATE, NS_MAP)

(* the candidates the last completion query returned, as a set *)
Candidates == Range(completion[1].matches[1])

(* C19: when the line buffer resolves with at least one token left that is  *)
(* no namespace, the candidates hold every command name (without its        *)
(* prefix) of the resolved handler that starts with the partial text, and   *)
(* no command name that does not.                                           *)
C19_CommandCandidates ==
    (completion # NONE /\ QueryResolves[3] # <<>>)
    => /\ completion[1].matches # NONE
       /\ \A c \in get_cmds_of_ns(QueryResolves[1], NS_MAP) :
              startswith(c, completion[1].text) <=> c \in Candidates

(* the first path segments below namespace ns of its proper descendants *)
SubSegments(ns) ==
    {split(SubSeq(k, Len(ns) + 2, Len(k)), NS_DELIM)[1] :
        k \in {k \in DOMAIN NS_MAP :
                  Len(k) > Len(ns) + 1 /\ SubSeq(k, 1, Len(ns) + 1) = ns \o <<NS_DELIM>>}}

(* C20: a completion query returns a list; its sub-namespace candidates are *)
(* exactly the first path segments of the proper descendants of the         *)
(* resolved namespace that start with the partial text, and the empty       *)
(* string is never a candidate.                                             *)
C20_SubCandidates ==
    completion # NONE
    => /\ completion[1].raised = NONE
       /\ completion[1].matches # NONE
       /\ <<>> \notin Candidates
       /\ \A seg \in SubSegments(QueryResolves[1]) :
              startswith(seg, completion[1].text) => seg \in Candidates
       /\ \A m \in Candidates :
              \/ m \in SubSegments(QueryResolves[1]) /\ startswith(m, completion[1].text)
              \/ m \in Range(completion[1].main)
              \/ m \in get_cmds_of_ns(QueryResolves[1], NS_MAP)

(* C21: help without arguments, dispatched in the namespace N the line     *)
(* resolves to, writes one text listing the global commands, exactly the    *)
(* first segments of the namespaces below N, and the commands of N's        *)
(* handler other than the reserved ones.                                    *)
C21_HelpListsNamespace ==
    (pc = "output" /\ HelpDispatched /\ invoked[1].args = <<>>)
    => /\ outqueue # <<>>
       /\ \E order \in Orders(SubSegments(entered[1][1])) :
              outqueue[Len(outqueue)] =
                  helpstr(order,
                          sorted(get_cmds_of_ns(entered[1][1], NS_MAP) \ Range(global_cmds)))

(* C22: an interrupt while run() waits for a line ends the loop like the   *)
(* end of the input: the read yields None, nothing is dispatched, and the   *)
(* namespace state, the OutputLog and the sinks stay as the last processed  *)
(* line left them.                                                          *)
C22_EndStep ==
    (pc = "read" /\ pc' = "done")
    => /\ data_in' = NONE
       /\ UNCHANGED <<NS_STATE, NS_MAP, inqueue, outqueue, stdout, outstr, filetext,
                      invoked, data_out>>

C22_InterruptEnds == [][C22_EndStep]_vars

C22_Witness ==
    /\ pc = "done"
    /\ HasFlag(METHOD_STD, method_in)
    /\ data_in = NONE
    /\ NS_STATE[1] = main \o <<NS_DELIM>> \o foo
    /\ outqueue = <<"Hello, foo!">>
    /\ stdout = "Hello, foo!\n"

(* C23: the list a completion query returns has no element twice and      *)
(* holds exactly the root candidate, the sub-namespace segments and the     *)
(* command names that start with the partial text.                          *)
C23_CandidateUnion ==
    completion # NONE
    => /\ completion[1].matches # NONE
       /\ \A i, j \in 1..Len(completion[1].matches[1]) :
              i # j => completion[1].matches[1][i] # completion[1].matches[1][j]
       /\ Candidates =
              Range(completion[1].main)
              \cup {seg \in SubSegments(QueryResolves[1]) :
                       startswith(seg, completion[1].text)}
              \cup {c \in get_cmds_of_ns(QueryResolves[1], NS_MAP) :
                       QueryResolves[3] # <<>> /\ startswith(c, completion[1].text)}

(* C24: with a string given as cmd_out the accumulator is, at every point  *)
(* of the session, that string followed by every entry of the OutputLog in  *)
(* order, each with one newline after it; when an output file is given as   *)
(* well, the file receives every entry too.                                 *)
C24_AccumulatorState ==
    (HasFlag(METHOD_STR, method_out) /\ pc # "failed")
    => /\ cmd_out.type = "str"
       /\ outstr = Some(cmd_out.value \o AsLines(outqueue))

C24_AccumulatorStep ==
    (HasFlag(METHOD_STR, method_out) /\ session' = session)
    => /\ outstr' = Some(outstr[1] \o AsLines(Appended))
       /\ HasFlag(METHOD_FILE, method_out) => filetext' = filetext \o AsLines(Appended)

C24_Accumulator == [](C24_AccumulatorState) /\ [][C24_AccumulatorStep]_vars

C24_Witness ==
    /\ pc = "done"
    /\ session = 1
    /\ HasFlag(METHOD_STR, method_out)
    /\ HasFlag(METHOD_FILE, method_out)
    /\ outqueue = <<"Hello, foo!", "Hello, foo!">>
    /\ outstr = Some("out:Hello, foo!\nHello, foo!\n")
    /\ filetext = "Hello, foo!\nHello, foo!\n"

Supported == {"NoneType", "str", "list"}

(* the construction logged a message that starts like this *)
Warned(message) == \E i \in 1..Len(init_log) : init_log[i].message = message

(* C25: a cmd_in or cmd_out of an unsupported type does not make the        *)
(* construction fail: a message is logged and the direction falls back to   *)
(* the console, input() for the input and sys.stdout for the output.        *)
C25_UnsupportedFallsBack ==
    /\ cmd_in.type \notin Supported
       => /\ pc # "failed"
          /\ method_in = METHOD_STD
          /\ inqueue = <<>>
          /\ Warned("Unsupported command input type, defaulting to METHOD_STD")
    /\ cmd_out.type \notin Supported
       => /\ pc # "failed"
          /\ HasFlag(METHOD_STD, method_out)
          /\ ~HasFlag(METHOD_STR, method_out) /\ ~HasFlag(METHOD_LIST, method_out)
          /\ outstr = NONE
          /\ Warned("Unsupported command output type, defaulting to sys.stdout")
          /\ stdout = AsLines(outqueue)

C25_Witness ==
    /\ cmd_in.type = "int"
    /\ cmd_out.type = "int"
    /\ pc = "read"
    /\ method_in = METHOD_STD
    /\ method_out = METHOD_STD
    /\ outqueue = <<"Hello, foo!">>
    /\ stdout = "Hello, foo!\n"

(* C26: a completion query on an empty NS_MAP returns the empty list,       *)
(* whatever the text and the line buffer: nothing is resolved, no           *)
(* exception leaves it, and __complete finds no candidate.                  *)
C26_EmptyMapNoCandidates ==
    (completion # NONE /\ DOMAIN NS_MAP = {})
    => /\ completion[1].matches = Some(<<>>)
       /\ completion[1].raised = NONE
       /\ completion[1].returned = NONE
       /\ completion[1].main = <<>> /\ completion[1].funcs = <<>>

C26_Witness ==
    /\ DOMAIN NS_MAP = {}
    /\ completion # NONE
    /\ completion[1].lb = foo \o spaces(1) \o helloworld
    /\ completion[1].text = helloworld
    /\ completion[1].matches = Some(<<>>)

(* the line dispatched the built-in help with a topic, and the handler has *)
(* no help_ operation for the topic                                         *)
HelpTopic ==
    /\ HelpDispatched
    /\ invoked[1].args # <<>>
    /\ getattr(invoked[1].obj, prefix_help \o invoked[1].args[1]) = NONE

(* the do_ attribute of the handler for the topic of the help *)
TopicCommand == getattr(invoked[1].obj, prefix_cmd \o invoked[1].args[1])

(* C27: 'help X' on a handler without a help_ operation for X: the lookup   *)
(* returns None and default() is not called; when the handler has a command *)
(* X with a doc text, that text is the one entry written, and when it has   *)
(* no command X the one entry is "No help available for X".                 *)
C27_HelpTopicStep ==
    (pc = "parse" /\ HelpTopic')
    => /\ logged' = <<>>
       /\ Len(invoked') = 1
       /\ data_out' = NONE
       /\ (TopicCommand' # NONE /\ TopicCommand'[1].m.doc # NONE)
          => Appended = <<TopicCommand'[1].m.doc[1]>>
       /\ TopicCommand' = NONE
          => Appended = <<"No help available for " \o Flatten(invoked'[1].args[1])>>

C27_HelpTopic == [][C27_HelpTopicStep]_vars

C27_Witness ==
    /\ pc = "output"
    /\ types = ExampleTypes
    /\ data_in = Some(join(spaces(1), <<foo, help, helloworld>>))
    /\ HelpTopic
    /\ outqueue = <<"prints Hello, foo!">>
    /\ NS_STATE[1] = main

(* C28: NS_MAP is built by the construction and never changed by a         *)
(* command line or a completion query; what a session changes is NS_STATE,  *)
(* the queue and the outputs, not the methods, the output file path or the  *)
(* handler types.                                                           *)
C28_MapStep ==
    session' = session
    => /\ NS_MAP' = NS_MAP
       /\ UNCHANGED <<method_in, method_out, outfile, cmd_in, cmd_out, init_log, types>>

C28_MapReadOnly == [][C28_MapStep]_vars

C28_Witness ==
    /\ pc = "read"
    /\ types = ExampleTypes
    /\ completion # NONE
    /\ NS_STATE[1] = main \o <<NS_DELIM>> \o foo \o <<NS_DELIM>> \o bar
    /\ NS_MAP = init_namespaces(ExampleTypes)

(* the namespace of st is a key of NS_MAP and its handler the value there *)
InMap(st) == st[1] \in DOMAIN NS_MAP /\ NS_MAP[st[1]] = st[2]

(* C29: in every state of a session (after each construction that did not   *)
(* raise, while a line is processed and after it) NS_STATE names a key of    *)
(* NS_MAP together with the handler stored there; a construction leaves it  *)
(* at main with the top-level interpreter.                                  *)
C29_StateInMapInv ==
    pc # "failed"
    => /\ InMap(NS_STATE)
       /\ entered # NONE => InMap(entered[1])
       /\ saved_ns_state # NONE => InMap(saved_ns_state[1])

C29_StartsAtMain ==
    (pc' # "failed" /\ session' # session) => NS_STATE' = <<main, "MainInterpreter">>

C29_StateInMap ==
    /\ (pc # "failed" => NS_STATE = <<main, "MainInterpreter">>)
    /\ [](C29_StateInMapInv)
    /\ [][C29_StartsAtMain]_vars

C29_Witness ==
    /\ pc = "output"
    /\ types = ExampleTypes
    /\ saved_ns_state = Some(<<main \o <<NS_DELIM>> \o foo, "FooInterpreter">>)
    /\ entered = Some(<<main \o <<NS_DELIM>> \o foo \o <<NS_DELIM>> \o bar, "BarInterpreter">>)
    /\ NS_STATE = saved_ns_state[1]
    /\ data_out = Some("Hello, foo!")

(* C30: however the run ends, NS_STATE is not left at a namespace that a   *)
(* line with a command entered for that command only: when a line with a    *)
(* command ends the run, NS_STATE is what it was when the line was taken     *)
(* up, and the end of the input or an interrupt leaves NS_STATE as it is.   *)
C30_EndState ==
    (pc = "exited" /\ remaining_parts # NONE /\ remaining_parts[1] # <<>>)
    => NS_STATE = saved_ns_state[1]

C30_EndStep == (pc = "read" /\ pc' = "done") => NS_STATE' = NS_STATE

C30_EndsRestored == [](C30_EndState) /\ [][C30_EndStep]_vars

(* C31: a completion query, whether it returns or raises, changes neither  *)
(* NS_STATE nor the queue, the OutputLog, the sinks or NS_MAP: the line      *)
(* buffer is resolved without the resolved namespace being entered.         *)
C31_QueryStep ==
    (completion' # NONE /\ completion' # completion)
    => UNCHANGED <<NS_STATE, inqueue, outqueue, NS_MAP, stdout, outstr, filetext, pc>>

C31_QueryChangesNothing == [][C31_QueryStep]_vars

C31_Witness ==
    /\ pc = "read"
    /\ completion # NONE
    /\ completion[1].lb = foo \o spaces(1) \o <<"h">>
    /\ completion[1].raised # NONE
    /\ QueryResolves[1] = main \o <<NS_DELIM>> \o foo
    /\ NS_STATE = <<main, "MainInterpreter">>
    /\ types = ExampleTypes

(* C32: when no handler type below the root is named main, a line whose    *)
(* first token is main resolves to the same namespace, handler and          *)
(* remaining tokens in whatever NS_STATE it is read as it does from the     *)
(* root, and the line "main" leaves NS_STATE at the root whatever the       *)
(* namespace it is read in.                                                 *)
NoOtherMain(decl) == \A c \in Range(decl) : Classes[c].name # MainInterpreter.name

AtRoot == <<main, "MainInterpreter">>

MainFirst(parts) == parts # <<>> /\ parts[1] = main

FromRoot(parts) ==
    /\ entered' = Some(<<check_namespace(parts, AtRoot, NS_MAP)[1],
                         check_namespace(parts, AtRoot, NS_MAP)[2]>>)
    /\ remaining_parts' = Some(check_namespace(parts, AtRoot, NS_MAP)[3])

C32_SameResolution ==
    (pc = "parse" /\ pc' # "parse" /\ NoOtherMain(types) /\ MainFirst(parts_of(data_in[1])))
    => FromRoot(parts_of(data_in[1]))

C32_MainLine ==
    (pc = "parse" /\ pc' # "parse" /\ NoOtherMain(types) /\ parts_of(data_in[1]) = <<main>>)
    => (NS_STATE' = AtRoot /\ pc' = "output" /\ data_out' = NONE)

C32_MainFromAnywhere == [][C32_SameResolution /\ C32_MainLine]_vars

C32_Witness ==
    /\ pc = "output"
    /\ types = ExampleTypes
    /\ data_in = Some(main)
    /\ saved_ns_state = Some(<<main \o <<NS_DELIM>> \o foo \o <<NS_DELIM>> \o bar, "BarInterpreter">>)
    /\ entered = Some(AtRoot)
    /\ remaining_parts = Some(<<>>)
    /\ NS_STATE = AtRoot

(* C33: a cmd_in that is a list is the input queue itself, not a copy: the *)
(* construction leaves the caller's list reversed, every read takes its     *)
(* last element away, the caller's list is empty when the run has read to   *)
(* the end, and an interpreter constructed from the same list then has an   *)
(* empty queue.                                                             *)
ListSession == cmds # NONE /\ HasFlag(METHOD_LIST, method_in)

C33_SameObject ==
    /\ cmd_in.type = "list" <=> cmds # NONE
    /\ cmd_in.type = "list" => (ListSession /\ cmds[1].list = inqueue)
    /\ (ListSession /\ pc = "done") => cmds[1].list = <<>>

C33_Reversed ==
    (cmd_in.type = "list" /\ session = 1) => cmds[1].list = reverse(cmd_in.value)

C33_Step ==
    /\ (ListSession /\ pc = "read" /\ pc' = "parse")
       => /\ data_in' = Some(cmds[1].list[Len(cmds[1].list)])
          /\ cmds'[1].list = SubSeq(cmds[1].list, 1, Len(cmds[1].list) - 1)
    /\ (ListSession /\ session' # session /\ cmds' # NONE /\ cmds'[1].passed > 1)
       => /\ cmd_in'.value = cmds[1].list
          /\ cmds'[1].list = reverse(cmds[1].list)
          /\ inqueue' = <<>>

C33_QueueIsCallersList == C33_Reversed /\ [](C33_SameObject) /\ [][C33_Step]_vars

C33_Witness ==
    /\ session = 2
    /\ pc = "done"
    /\ cmds = Some([list |-> <<>>, passed |-> 2])
    /\ cmd_in = [type |-> "list", value |-> <<>>]
    /\ inqueue = <<>>
    /\ stdout = "Hello, foo!\n"
    /\ outqueue = <<>>

====
